---- MODULE Spec2Model ----
(***************************************************************************)
(* Model of the Android package uploader: the FastAPI handler              *)
(* upload_package (src/app/main.py) and the storage client                 *)
(* OSSUploader (src/app/uploader.py).                                      *)
(*                                                                         *)
(* Text is a sequence of pieces.  File names and custom names are          *)
(* sequences of one-character strings, so that lower(), endswith(),        *)
(* Path.suffix and str.replace are computed character by character.        *)
(* Fixed literals of the code (message prefixes, the public host, the      *)
(* configured prefix) are single pieces.  An optional value is a sequence  *)
(* of length at most one: <<>> is Python's None, <<v>> is v.               *)
(***************************************************************************)
EXTENDS Integers, Sequences, FiniteSets, TLC

VARIABLES
    max_upload_size,  \* settings.max_upload_size
    extOrder,         \* iteration order of the set SUPPORTED_EXTENSIONS in this process
    pc,               \* position of the request handler
    filename,         \* file.filename
    custom_name,      \* the custom_name form field (optional)
    body_len,         \* number of bytes the inbound file stream carries
    file_content,     \* optional: the bytes read (their length)
    file_closed,      \* whether file.close() has run
    bucket_conn,      \* OSSUploader._bucket of the instance in use: "None" or "Bucket"
    connections,      \* oss2.Bucket objects constructed by the instance in use
    puts,             \* put_object calls made for the current request / call
    upload_ret,       \* optional: what upload_file returned or raised
    response,         \* optional: the HTTP response (or pending HTTPException)
    tasks             \* concurrent requests: per request slot, its handler's state

vars == <<max_upload_size, extOrder, pc, filename, custom_name, body_len,
          file_content, file_closed, bucket_conn, connections, puts,
          upload_ret, response, tasks>>

----------------------------------------------------------------------------
(* Bounds of the model *)

\* file names are concatenations of at most this many FilenameParts
MaxFilenameParts == 2
\* custom names of direct upload_file calls: at most this many CustomParts
MaxCustomParts == 3
\* settings.max_upload_size ranges over 1..MaxLimit, bodies over 0..MaxLimit+1 bytes
MaxLimit == 2
\* requests the server handles at the same time
NumRequests == 2
\* upload_file calls a direct caller makes on one OSSUploader instance
MaxDirectCalls == 2

----------------------------------------------------------------------------
(* Text *)

None == <<>>
Some(v) == <<v>>

DotApk == <<".", "a", "p", "k">>
DotAab == <<".", "a", "a", "b">>

\* str.lower() on one character
LowerChar(c) ==
    CASE c = "A" -> "a"
      [] c = "B" -> "b"
      [] c = "K" -> "k"
      [] c = "P" -> "p"
      [] OTHER -> c

\* str.upper() on one character
UpperChar(c) ==
    CASE c = "a" -> "A"
      [] c = "b" -> "B"
      [] c = "k" -> "K"
      [] c = "p" -> "P"
      [] OTHER -> c

Lower(s) == [i \in 1..Len(s) |-> LowerChar(s[i])]
Upper(s) == [i \in 1..Len(s) |-> UpperChar(s[i])]

\* s.endswith(suf)
EndsWith(s, suf) ==
    /\ Len(suf) <= Len(s)
    /\ SubSeq(s, Len(s) - Len(suf) + 1, Len(s)) = suf

\* whether old occurs in s at position i (1-based)
OccursAt(s, old, i) ==
    /\ i >= 1
    /\ i + Len(old) - 1 <= Len(s)
    /\ SubSeq(s, i, i + Len(old) - 1) = old

\* s.replace(old, ''): one left-to-right pass over non-overlapping occurrences
RECURSIVE Remove(_, _)
Remove(s, old) ==
    IF Len(s) = 0 THEN <<>>
    ELSE IF OccursAt(s, old, 1)
         THEN Remove(SubSeq(s, Len(old) + 1, Len(s)), old)
         ELSE <<Head(s)>> \o Remove(Tail(s), old)

\* s.lstrip('.')
RECURSIVE LStripDot(_)
LStripDot(s) ==
    IF Len(s) > 0 /\ Head(s) = "." THEN LStripDot(Tail(s)) ELSE s

\* s.rfind(ch), 1-based; 0 when ch does not occur
RFind(s, ch) ==
    LET at == {i \in 1..Len(s) : s[i] = ch}
    IN IF at = {} THEN 0 ELSE CHOOSE i \in at : \A j \in at : j <= i

\* the components of a POSIX path: split at '/', empty and '.' components dropped
RECURSIVE PathParts(_, _)
PathParts(s, cur) ==
    LET keep == IF cur = <<>> \/ cur = <<".">> THEN <<>> ELSE <<cur>>
    IN IF Len(s) = 0 THEN keep
       ELSE IF Head(s) = "/" THEN keep \o PathParts(Tail(s), <<>>)
            ELSE PathParts(Tail(s), cur \o <<Head(s)>>)

\* Path(s).name: the final path component ('' when there is none)
PathName(s) ==
    LET parts == PathParts(s, <<>>)
    IN IF Len(parts) = 0 THEN <<>> ELSE parts[Len(parts)]

\* Path(s).suffix: from the last dot of the name, unless the name starts
\* with that dot or ends with it
PathSuffix(s) ==
    LET name == PathName(s)
        i == RFind(name, ".")
    IN IF 1 < i /\ i < Len(name) THEN SubSeq(name, i, Len(name)) ELSE <<>>

----------------------------------------------------------------------------
(* Configuration: Settings (src/app/config.py) and OSSUploader's constants *)

oss_prefix == <<"android-packages">>
oss_bucket_name == <<"macaron-system">>
PUBLIC_HOST == <<"https://download.macaron.chat/">>
UPLOAD_FAILED_PREFIX == <<"Failed to upload Android package: ">>

SUPPORTED_EXTENSIONS == {DotApk, DotAab}

\* the orders in which a process may iterate over the set SUPPORTED_EXTENSIONS
\* (string hashing is randomised per process)
IterationOrders ==
    {<<a, b>> : a, b \in SUPPORTED_EXTENSIONS} \ {<<a, a>> : a \in SUPPORTED_EXTENSIONS}

CONTENT_TYPES(extension) ==
    CASE extension = DotApk -> "application/vnd.android.package-archive"
      [] extension = DotAab -> "application/x-authorware-bin"
      [] OTHER -> "application/octet-stream"

----------------------------------------------------------------------------
(* Exceptions and results *)

Exc(type, status_code, msg) == [type |-> type, status_code |-> status_code, msg |-> msg]
HTTPException(status_code, detail) == Exc("HTTPException", status_code, detail)
ValueError(msg) == Exc("ValueError", 0, msg)
Exception(msg) == Exc("Exception", 0, msg)

Returned(v) == [kind |-> "return", value |-> Some(v), exc |-> None]
Raised(e) == [kind |-> "raise", value |-> None, exc |-> Some(e)]

\* what one put_object call of the external store can do: answer with a
\* status, or raise (the text is str(e))
PutOutcomes ==
    {[kind |-> "status", status |-> st, text |-> <<>>] : st \in {200, 403}}
    \cup {[kind |-> "raise", status |-> 0, text |-> <<"RequestError: connection refused">>]}

----------------------------------------------------------------------------
(* OSSUploader (src/app/uploader.py) *)

_get_file_extension(fname) == Lower(PathSuffix(fname))

\* ', '.join(self.SUPPORTED_EXTENSIONS), in the process's iteration order
JoinSupported(order) == order[1] \o <<", ">> \o order[2]

_validate_file_extension(fname) ==
    LET extension == _get_file_extension(fname)
    IN IF extension \notin SUPPORTED_EXTENSIONS
       THEN Raised(ValueError(<<"File must be an Android package (">>
                              \o JoinSupported(extOrder) \o <<"), got: ">> \o fname))
       ELSE Returned(extension)

\* for ext in self.SUPPORTED_EXTENSIONS: custom_name = custom_name.replace(ext, '')
RECURSIVE StripExtensions(_, _)
StripExtensions(name, order) ==
    IF order = <<>> THEN name
    ELSE StripExtensions(Remove(name, Head(order)), Tail(order))

\* Python truth value of an Optional[str]: None and '' are false
Truthy(opt) == opt # None /\ Len(opt[1]) > 0

\* mutant: only a trailing extension is cut from the custom name
ObjectNameSuffixOnly(fname, custom, extension) ==
    IF Truthy(custom)
    THEN oss_prefix \o <<"/">>
         \o (IF \E e \in SUPPORTED_EXTENSIONS : EndsWith(custom[1], e)
             THEN SubSeq(custom[1], 1, Len(custom[1]) - 4)
             ELSE custom[1])
         \o extension
    ELSE oss_prefix \o <<"/">> \o fname

\* the object key upload_file computes
ObjectName(fname, custom, extension) ==
    IF Truthy(custom)
    THEN oss_prefix \o <<"/">> \o StripExtensions(custom[1], extOrder) \o extension
    ELSE oss_prefix \o <<"/">> \o fname

\* round(n / d, 2) in hundredths, ties to even
RoundHundredths(n, d) ==
    LET q == (100 * n) \div d
        r == (100 * n) % d
    IN IF 2 * r > d \/ (2 * r = d /\ q % 2 = 1) THEN q + 1 ELSE q

BYTES_PER_MIB == 1048576

\* mutant: the url is built from the prefix-less file part of the key
UploadResultShortUrl(object_name, extension, file_size) ==
    [success |-> TRUE,
     url |-> PUBLIC_HOST \o Tail(Tail(object_name)),
     object_name |-> object_name,
     bucket |-> oss_bucket_name,
     file_type |-> Upper(LStripDot(extension)),
     size_mb |-> RoundHundredths(file_size, BYTES_PER_MIB)]

\* the dict upload_file returns on success (size_mb in hundredths of a MiB)
UploadResult(object_name, extension, file_size) ==
    [success |-> TRUE,
     url |-> PUBLIC_HOST \o object_name,
     object_name |-> object_name,
     bucket |-> oss_bucket_name,
     file_type |-> Upper(LStripDot(extension)),
     size_mb |-> RoundHundredths(file_size, BYTES_PER_MIB)]

\* mutant: a failed put_object is tried once more
PutObjectCallsRetry(call, outcome) ==
    IF outcome.kind = "raise" \/ outcome.status # 200 THEN <<call, call>> ELSE <<call>>

\* the put_object calls one upload_file run makes: one, whatever the outcome
PutObjectCalls(call, outcome) == <<call>>

\* except Exception as e: raise Exception(f"Failed to upload Android package: {str(e)}")
WrapUploadError(text) == Exception(UPLOAD_FAILED_PREFIX \o text)

\* the try block of upload_file, given what put_object does
PutAndReport(object_name, extension, file_size, outcome) ==
    IF outcome.kind = "raise"
    THEN Raised(WrapUploadError(outcome.text))
    ELSE IF outcome.status # 200
         THEN Raised(WrapUploadError(<<"Upload failed with status: ", ToString(outcome.status)>>))
         ELSE Returned(UploadResult(object_name, extension, file_size))

\* upload_file as a whole: [ret: what it returns or raises, calls: the
\* put_object calls it made, used_bucket: whether self.bucket was read]
upload_file(file_size, fname, custom, outcome) ==
    LET checked == _validate_file_extension(fname)
    IN IF checked.kind = "raise"
       THEN [ret |-> checked, calls |-> <<>>, used_bucket |-> FALSE]
       ELSE LET extension == checked.value[1]
                object_name == ObjectName(fname, custom, extension)
                call == [key |-> object_name,
                         size |-> file_size,
                         content_type |-> CONTENT_TYPES(extension),
                         outcome |-> outcome]
            IN [ret |-> PutAndReport(object_name, extension, file_size, outcome),
                calls |-> PutObjectCalls(call, outcome),
                used_bucket |-> TRUE]

----------------------------------------------------------------------------
(* Inputs *)

App == <<"a", "p", "p">>
AppRelease == <<"a", "p", "p", "-", "r", "e", "l", "e", "a", "s", "e">>
MyApp == <<"m", "y", "a", "p", "p">>

\* all concatenations of at most n of the given parts
RECURSIVE Concats(_, _)
Concats(parts, n) ==
    IF n = 0 THEN {<<>>}
    ELSE LET shorter == Concats(parts, n - 1)
         IN shorter \cup {s \o p : s \in shorter, p \in parts}

FilenameParts ==
    {<<"x">>, <<".">>, <<"/">>, DotApk, DotAab, <<".", "A", "p", "k">>, <<"x">> \o DotApk}

\* file names of HTTP requests: '', 'x', 'x.apk', 'x.Apk', '.apk', 'x.apk/', '.aab.', ...
Filenames == Concats(FilenameParts, MaxFilenameParts)

\* custom_name form fields of HTTP requests
HttpCustomNames == {None, Some(<<>>), Some(MyApp \o DotApk), Some(<<"v", "1">>)}

BodyLengths == 0..(MaxLimit + 1)

CustomParts == {DotApk, DotAab, <<".", "a">>, <<"a", "b">>, <<"p", "k">>, <<"m">>}

\* arguments of direct upload_file calls
DirectFilenames ==
    {App \o DotApk, AppRelease \o DotAab, <<"x", ".", "A", "A", "B">>, DotApk, <<"x">>,
     <<"x">> \o DotApk \o <<"/">>}

DirectCustomNames ==
    {None, Some(MyApp \o DotApk)}
    \cup {Some(c) : c \in Concats(CustomParts, MaxCustomParts)}

----------------------------------------------------------------------------
(* upload_package (src/app/main.py) *)

\* mutant: the extension only has to occur somewhere in the name
AllowedFileTypeAnywhere(fname) ==
    \E i \in 1..Len(fname) :
        OccursAt(Lower(fname), DotApk, i) \/ OccursAt(Lower(fname), DotAab, i)

\* filename_lower.endswith('.apk') or filename_lower.endswith('.aab')
AllowedFileType(fname) ==
    LET filename_lower == Lower(fname)
    IN EndsWith(filename_lower, DotApk) \/ EndsWith(filename_lower, DotAab)

\* mutant: the limit itself is already too large
TooLargeInclusive(file_size, limit) == file_size >= limit

\* file_size > settings.max_upload_size
TooLarge(file_size, limit) == file_size > limit

\* mutant: the emptiness check is missing
IsEmptyNever(file_size) == FALSE

\* file_size == 0
IsEmpty(file_size) == file_size = 0

\* mutant: no except ValueError clause
HandleExceptionNoValueError(e) ==
    CASE e.type = "HTTPException" -> e
      [] OTHER -> HTTPException(500, UPLOAD_FAILED_PREFIX \o e.msg)

\* the except clauses of upload_package: the HTTPException that leaves the handler
HandleException(e) ==
    CASE e.type = "HTTPException" -> e
      [] e.type = "ValueError" -> HTTPException(400, e.msg)
      [] OTHER -> HTTPException(500, UPLOAD_FAILED_PREFIX \o e.msg)

\* the response the framework renders for an exception raised in the try block
ErrorResponse(e) ==
    LET h == HandleException(e)
    IN [status_code |-> h.status_code, detail |-> h.msg, content |-> None]

\* mutant: the message always names APK
HandlerFileTypeApk(fname) == <<"A", "P", "K">>

\* "APK" if filename_lower.endswith('.apk') else "AAB"
HandlerFileType(fname) ==
    IF EndsWith(Lower(fname), DotApk) THEN <<"A", "P", "K">> ELSE <<"A", "A", "B">>

\* JSONResponse(status_code=200, content={success, message, data})
SuccessResponse(fname, result) ==
    [status_code |-> 200,
     detail |-> <<>>,
     content |-> Some([success |-> TRUE,
                       message |-> HandlerFileType(fname) \o <<" file uploaded successfully">>,
                       data |-> result])]

\* f"File too large. Maximum size: {max_size_mb}MB, Got: {actual_size_mb:.2f}MB";
\* the limit is printed as the unrounded quotient, the actual size to 2 decimals
\* (kept here in hundredths)
TooLargeDetail(file_size, limit) ==
    <<"File too large. Maximum size: ", ToString(limit), "/1048576", "MB, Got: ",
      ToString(RoundHundredths(file_size, BYTES_PER_MIB)), "/100", "MB">>

----------------------------------------------------------------------------
(* Concurrent requests: one event-loop task per request *)

Requests == 1..NumRequests

\* OSSUploader.__init__: self._bucket = None (created counts the oss2.Bucket
\* objects this instance has constructed)
NewUploader == [_bucket |-> None, created |-> 0]

\* mutant: the connection is constructed but not kept in self._bucket
bucketUncached(inst, owner) ==
    [inst |-> [inst EXCEPT !.created = @ + 1],
     conn |-> <<owner, inst.created + 1>>]

\* the bucket property: constructs the connection when self._bucket is None,
\* keeps it, and returns self._bucket; a connection is identified by the
\* instance that made it and its serial number there
bucket(inst, owner) ==
    IF inst._bucket = None
    THEN LET conn == <<owner, inst.created + 1>>
         IN [inst |-> [_bucket |-> Some(conn), created |-> inst.created + 1],
             conn |-> conn]
    ELSE [inst |-> inst, conn |-> inst._bucket[1]]

\* a request slot with no request in it
IdleTask ==
    [pc |-> "idle", filename |-> <<>>, body_len |-> 0, file_content |-> None,
     file_closed |-> FALSE, uploader |-> NewUploader, put_conns |-> <<>>,
     status_code |-> 0, calls |-> 0]

\* inputs of the concurrent requests
ConcFilenames == {<<"x">> \o DotApk, DotAab, <<"x">>}
ConcBodyLengths == {0, 1, MaxLimit + 1}

Init ==
    /\ max_upload_size \in 1..MaxLimit
    /\ extOrder \in IterationOrders
    /\ pc = "idle"
    /\ filename = <<>>
    /\ custom_name = None
    /\ body_len = 0
    /\ file_content = None
    /\ file_closed = FALSE
    /\ bucket_conn = "None"
    /\ connections = 0
    /\ puts = <<>>
    /\ upload_ret = None
    /\ response = None
    /\ tasks = [r \in Requests |-> IdleTask]

\* a POST /upload arrives; get_uploader builds a fresh OSSUploader for it
ReceiveRequest ==
    /\ pc = "idle"
    /\ filename' \in Filenames
    /\ custom_name' \in HttpCustomNames
    /\ body_len' \in BodyLengths
    /\ file_content' = None
    /\ file_closed' = FALSE
    /\ bucket_conn' = "None"
    /\ connections' = 0
    /\ puts' = <<>>
    /\ upload_ret' = None
    /\ response' = None
    /\ pc' = "validate_type"
    /\ UNCHANGED <<tasks, max_upload_size, extOrder>>

\* main.py 97-103
ValidateFileType ==
    /\ pc = "validate_type"
    /\ IF ~AllowedFileType(filename)
       THEN /\ response' = Some(ErrorResponse(HTTPException(400,
                    <<"Invalid file type. Only APK and AAB files are allowed. Got: ">>
                    \o filename)))
            /\ pc' = "finally"
       ELSE /\ response' = response
            /\ pc' = "read"
    /\ UNCHANGED <<tasks, max_upload_size, extOrder, filename, custom_name, body_len,
                   file_content, file_closed, bucket_conn, connections, puts,
                   upload_ret>>

\* main.py 107: file_content = await file.read()
ReadFileContent ==
    /\ pc = "read"
    /\ file_content' = Some(body_len)
    /\ pc' = "check_size"
    /\ UNCHANGED <<tasks, max_upload_size, extOrder, filename, custom_name, body_len,
                   file_closed, bucket_conn, connections, puts, upload_ret, response>>

\* main.py 110-123
CheckFileSize ==
    /\ pc = "check_size"
    /\ LET file_size == file_content[1]
       IN IF TooLarge(file_size, max_upload_size)
          THEN /\ response' = Some(ErrorResponse(HTTPException(413,
                       TooLargeDetail(file_size, max_upload_size))))
               /\ pc' = "finally"
          ELSE IF IsEmpty(file_size)
               THEN /\ response' = Some(ErrorResponse(HTTPException(400,
                            <<"Empty file uploaded">>)))
                    /\ pc' = "finally"
               ELSE /\ response' = response
                    /\ pc' = "upload"
    /\ UNCHANGED <<tasks, max_upload_size, extOrder, filename, custom_name, body_len,
                   file_content, file_closed, bucket_conn, connections, puts,
                   upload_ret>>

\* the effect of one upload_file run on the uploader instance and the call log
RunUploadFile(file_size, fname, custom, outcome) ==
    LET run == upload_file(file_size, fname, custom, outcome)
    IN /\ upload_ret' = Some(run.ret)
       /\ puts' = run.calls
       /\ IF run.used_bucket /\ bucket_conn = "None"
          THEN bucket_conn' = "Bucket" /\ connections' = connections + 1
          ELSE UNCHANGED <<bucket_conn, connections>>

\* main.py 127-156: await uploader.upload_file(...), then the 200 response or
\* the except clause that applies
UploadToOSS ==
    /\ pc = "upload"
    /\ \E outcome \in PutOutcomes :
          /\ RunUploadFile(file_content[1], filename, custom_name, outcome)
          /\ LET ret == upload_file(file_content[1], filename, custom_name, outcome).ret
             IN response' = IF ret.kind = "raise"
                            THEN Some(ErrorResponse(ret.exc[1]))
                            ELSE Some(SuccessResponse(filename, ret.value[1]))
    /\ pc' = "finally"
    /\ UNCHANGED <<tasks, max_upload_size, extOrder, filename, custom_name, body_len,
                   file_content, file_closed>>

\* mutant: the handler ends without closing the file
CloseFileSkipped ==
    /\ pc = "finally"
    /\ pc' = "done"
    /\ UNCHANGED <<tasks, max_upload_size, extOrder, filename, custom_name, body_len,
                   file_content, file_closed, bucket_conn, connections, puts,
                   upload_ret, response>>

\* main.py 157-158: finally: await file.close(); the request is finished
CloseFile ==
    /\ pc = "finally"
    /\ file_closed' = TRUE
    /\ pc' = "done"
    /\ UNCHANGED <<tasks, max_upload_size, extOrder, filename, custom_name, body_len,
                   file_content, bucket_conn, connections, puts, upload_ret, response>>

\* the framework sends the response; the request's objects are dropped
SendResponse ==
    /\ pc = "done"
    /\ pc' = "idle"
    /\ filename' = <<>>
    /\ custom_name' = None
    /\ body_len' = 0
    /\ file_content' = None
    /\ file_closed' = FALSE
    /\ bucket_conn' = "None"
    /\ connections' = 0
    /\ puts' = <<>>
    /\ upload_ret' = None
    /\ response' = None
    /\ UNCHANGED <<tasks, max_upload_size, extOrder>>

Next ==
    \/ ReceiveRequest
    \/ ValidateFileType
    \/ ReadFileContent
    \/ CheckFileSize
    \/ UploadToOSS
    \/ CloseFile
    \/ SendResponse

Spec == Init /\ [][Next]_vars

\* the steps of a started handler other than the upload
HandlerStep ==
    \/ ValidateFileType
    \/ ReadFileContent
    \/ CheckFileSize
    \/ CloseFile
    \/ SendResponse

\* UploadToOSS as pc shows it: under Spec every step that leaves pc = "upload"
\* is an UploadToOSS step, and UploadToOSS is enabled whenever pc = "upload"
\* (put_object always answers or raises)
UploadStep == pc = "upload" /\ pc' = "finally"

\* each request is one task of the event loop, which runs a started handler
\* to its end (at most one of its steps is enabled at a time); new requests
\* need not arrive
LiveSpec == Spec /\ WF_vars(HandlerStep) /\ WF_pc(UploadStep)

\* a caller invokes upload_file directly on one long-lived OSSUploader
DirectUploadFile ==
    /\ pc = "idle"
    /\ \E fname \in DirectFilenames, custom \in DirectCustomNames,
          size \in {0, 1}, outcome \in PutOutcomes :
          /\ filename' = fname
          /\ custom_name' = custom
          /\ body_len' = size
          /\ file_content' = Some(size)
          /\ RunUploadFile(size, fname, custom, outcome)
    /\ pc' = "returned"
    /\ UNCHANGED <<tasks, max_upload_size, extOrder, file_closed, response>>

\* the caller takes the result (or the exception); the uploader instance and
\* its connection stay
DirectReturn ==
    /\ pc = "returned"
    /\ pc' = "idle"
    /\ filename' = <<>>
    /\ custom_name' = None
    /\ body_len' = 0
    /\ file_content' = None
    /\ puts' = <<>>
    /\ upload_ret' = None
    /\ UNCHANGED <<tasks, max_upload_size, extOrder, file_closed, bucket_conn,
                   connections, response>>

NextDirect == DirectUploadFile \/ DirectReturn

SpecDirect == Init /\ [][NextDirect]_vars

----------------------------------------------------------------------------
(* upload_package under concurrent requests: the handlers interleave at their
   await points; upload_file has no await inside and runs as one step *)

\* the variables of the single-request view
single == <<pc, filename, custom_name, body_len, file_content, file_closed,
            bucket_conn, connections, puts, upload_ret, response>>

\* request r arrives; get_uploader builds a fresh OSSUploader for it
ConcReceive(r) ==
    /\ tasks[r].pc = "idle"
    /\ \E fname \in ConcFilenames, n \in ConcBodyLengths :
          tasks' = [tasks EXCEPT ![r] =
                      [IdleTask EXCEPT !.pc = "validate_type",
                                       !.filename = fname,
                                       !.body_len = n]]
    /\ UNCHANGED <<max_upload_size, extOrder, single>>

\* main.py 97-103
ConcValidateFileType(r) ==
    /\ tasks[r].pc = "validate_type"
    /\ tasks' = [tasks EXCEPT ![r] =
                   IF ~AllowedFileType(tasks[r].filename)
                   THEN [@ EXCEPT !.pc = "finally", !.status_code = 400]
                   ELSE [@ EXCEPT !.pc = "read"]]
    /\ UNCHANGED <<max_upload_size, extOrder, single>>

\* main.py 107
ConcReadFileContent(r) ==
    /\ tasks[r].pc = "read"
    /\ tasks' = [tasks EXCEPT ![r] =
                   [@ EXCEPT !.pc = "check_size", !.file_content = Some(tasks[r].body_len)]]
    /\ UNCHANGED <<max_upload_size, extOrder, single>>

\* main.py 110-123
ConcCheckFileSize(r) ==
    /\ tasks[r].pc = "check_size"
    /\ LET file_size == tasks[r].file_content[1]
       IN tasks' = [tasks EXCEPT ![r] =
                      IF TooLarge(file_size, max_upload_size)
                      THEN [@ EXCEPT !.pc = "finally", !.status_code = 413]
                      ELSE IF IsEmpty(file_size)
                           THEN [@ EXCEPT !.pc = "finally", !.status_code = 400]
                           ELSE [@ EXCEPT !.pc = "upload"]]
    /\ UNCHANGED <<max_upload_size, extOrder, single>>

\* main.py 127-156: upload_file on the request's own uploader; each
\* put_object call goes through self.bucket
ConcUploadToOSS(r) ==
    /\ tasks[r].pc = "upload"
    /\ \E outcome \in PutOutcomes :
          LET run == upload_file(tasks[r].file_content[1], tasks[r].filename, None, outcome)
              got == bucket(tasks[r].uploader, r)
              resp == IF run.ret.kind = "raise"
                      THEN ErrorResponse(run.ret.exc[1])
                      ELSE SuccessResponse(tasks[r].filename, run.ret.value[1])
          IN tasks' = [tasks EXCEPT ![r] =
                         [@ EXCEPT !.pc = "finally",
                                   !.status_code = resp.status_code,
                                   !.uploader = IF run.used_bucket THEN got.inst ELSE @,
                                   !.put_conns = [i \in 1..Len(run.calls) |-> got.conn]]]
    /\ UNCHANGED <<max_upload_size, extOrder, single>>

\* main.py 157-158
ConcCloseFile(r) ==
    /\ tasks[r].pc = "finally"
    /\ tasks' = [tasks EXCEPT ![r] = [@ EXCEPT !.pc = "done", !.file_closed = TRUE]]
    /\ UNCHANGED <<max_upload_size, extOrder, single>>

\* the response is sent; the request's objects, its uploader among them, are dropped
ConcSendResponse(r) ==
    /\ tasks[r].pc = "done"
    /\ tasks' = [tasks EXCEPT ![r] = IdleTask]
    /\ UNCHANGED <<max_upload_size, extOrder, single>>

\* a caller outside the server keeps one OSSUploader and awaits upload_file
\* on it, again and again
ConcDirectUpload(r) ==
    /\ tasks[r].pc \in {"idle", "direct"}
    /\ tasks[r].calls < MaxDirectCalls
    /\ \E fname \in ConcFilenames, outcome \in PutOutcomes :
          LET run == upload_file(1, fname, None, outcome)
              got == bucket(tasks[r].uploader, r)
          IN tasks' = [tasks EXCEPT ![r] =
                         [@ EXCEPT !.pc = "direct",
                                   !.calls = @ + 1,
                                   !.uploader = IF run.used_bucket THEN got.inst ELSE @,
                                   !.put_conns = @ \o [i \in 1..Len(run.calls) |-> got.conn]]]
    /\ UNCHANGED <<max_upload_size, extOrder, single>>

\* the direct caller drops its uploader
ConcDirectDrop(r) ==
    /\ tasks[r].pc = "direct"
    /\ tasks' = [tasks EXCEPT ![r] = IdleTask]
    /\ UNCHANGED <<max_upload_size, extOrder, single>>

NextConc ==
    \E r \in Requests :
        \/ ConcReceive(r)
        \/ ConcValidateFileType(r)
        \/ ConcReadFileContent(r)
        \/ ConcCheckFileSize(r)
        \/ ConcUploadToOSS(r)
        \/ ConcCloseFile(r)
        \/ ConcSendResponse(r)
        \/ ConcDirectUpload(r)
        \/ ConcDirectDrop(r)

SpecConc == Init /\ [][NextConc]_vars

----------------------------------------------------------------------------
(* Properties *)

\* the request being handled has been received and not yet answered
InRequest == pc \in {"validate_type", "read", "check_size", "upload", "finally", "done"}

\* the handler has finished: the response and the finally clause are done
Finished == pc = "done"

StatusCode == response[1].status_code

\* the lower-cased file name ends with '.apk' or '.aab'
HasPackageSuffix(fname) ==
    \E ext \in {DotApk, DotAab} : EndsWith(Lower(fname), ext)

\* C1: a request whose file name has a lower-cased suffix other than '.apk' and
\* '.aab' never reaches put_object, and it is answered with HTTP 400.
C1_InvalidTypeRejected ==
    (InRequest /\ ~HasPackageSuffix(filename)) =>
        /\ puts = <<>>
        /\ upload_ret = None
        /\ Finished => StatusCode = 400

\* C1 witness: a finished request with an unsupported suffix, answered 400.
C1_Witness ==
    /\ Finished
    /\ filename = <<"x", ".", "a", "p", "k", "/">>
    /\ StatusCode = 400
    /\ puts = <<>>

\* C2 as stated: every body longer than the configured maximum is answered
\* with 413, whatever the file name.
C2_Original ==
    (Finished /\ body_len > max_upload_size) => StatusCode = 413

\* C2 amended: when the file name has a supported suffix, the request is
\* answered with 413 exactly when the body is longer than the configured
\* maximum (a body of exactly the maximum length is not rejected as too large).
C2_TooLargeRejected ==
    (Finished /\ HasPackageSuffix(filename)) =>
        (StatusCode = 413 <=> body_len > max_upload_size)

\* C2 witness: a body one byte over the maximum, answered 413.
C2_Witness ==
    /\ Finished
    /\ HasPackageSuffix(filename)
    /\ body_len = max_upload_size + 1
    /\ StatusCode = 413

\* C3: a request whose body has length 0 is answered with HTTP 400 whether or
\* not its file name is valid, and put_object is never invoked for it.
C3_EmptyRejected ==
    (InRequest /\ body_len = 0) =>
        /\ puts = <<>>
        /\ upload_ret = None
        /\ Finished => StatusCode = 400

\* C3 witness: an empty body under a supported file name, rejected as empty.
C3_Witness ==
    /\ Finished
    /\ body_len = 0
    /\ HasPackageSuffix(filename)
    /\ StatusCode = 400
    /\ response[1].detail = <<"Empty file uploaded">>

\* upload_file has returned to (or raised into) its direct caller
DirectDone == pc = "returned"

\* the key of the put_object call of the current upload_file run
PutKey == puts[1].key

\* the validated extension of a file name: its lower-cased Path suffix
PackageExtension(fname) == Lower(PathSuffix(fname))

\* the positions of s that lie inside an occurrence of one of exts in s
Covered(s, exts) ==
    {i \in 1..Len(s) :
        \E ext \in exts, j \in 1..i : OccursAt(s, ext, j) /\ i < j + Len(ext)}

\* s from position i on, without the positions in drop
RECURSIVE Without(_, _, _)
Without(s, drop, i) ==
    IF i > Len(s) THEN <<>>
    ELSE (IF i \in drop THEN <<>> ELSE <<s[i]>>) \o Without(s, drop, i + 1)

\* s with every occurrence of every one of exts deleted
Deleted(s, exts) == Without(s, Covered(s, exts), 1)

\* C4 as stated: with a custom name supplied the key is prefix/ + C + ext, C
\* being the custom name with every occurrence of '.apk' and '.aab' removed;
\* otherwise the key is prefix/ + the original file name.
C4_Original ==
    (DirectDone /\ puts # <<>>) =>
        PutKey = IF custom_name # None
                 THEN <<"android-packages", "/">>
                      \o Deleted(custom_name[1], {DotApk, DotAab})
                      \o PackageExtension(filename)
                 ELSE <<"android-packages", "/">> \o filename

\* C4 amended: with a non-empty custom name the key is prefix/ + C + ext, where
\* C is the custom name after one deletion pass per supported extension, taken
\* in the iteration order of the extension set, each pass deleting the
\* occurrences of its extension in the text the previous pass left; with no
\* custom name, or an empty one, the key is prefix/ + the original file name.
C4_ObjectKey ==
    (DirectDone /\ puts # <<>>) =>
        PutKey = IF custom_name # None /\ custom_name[1] # <<>>
                 THEN <<"android-packages", "/">>
                      \o Deleted(Deleted(custom_name[1], {extOrder[1]}), {extOrder[2]})
                      \o PackageExtension(filename)
                 ELSE <<"android-packages", "/">> \o filename

\* C4 witness: 'app-release.aab' with custom name 'myapp.apk' is stored under
\* 'android-packages/myapp.aab'.
C4_Witness ==
    /\ DirectDone
    /\ filename = AppRelease \o DotAab
    /\ custom_name = Some(MyApp \o DotApk)
    /\ puts # <<>>
    /\ PutKey = <<"android-packages", "/">> \o MyApp \o DotAab

\* C4, a second reachable case: a non-empty custom name whose key differs from
\* the one the deletion of all occurrences gives ('.a.aabpk' stored as '.aab'
\* or '.apk', by iteration order).
C4_SequentialDiffers ==
    /\ DirectDone
    /\ puts # <<>>
    /\ custom_name # None
    /\ custom_name[1] # <<>>
    /\ PutKey # <<"android-packages", "/">>
                \o Deleted(custom_name[1], {DotApk, DotAab})
                \o PackageExtension(filename)

\* the number of times piece occurs in text
Count(text, piece) == Cardinality({i \in 1..Len(text) : text[i] = piece})

Contains(text, piece) == Count(text, piece) > 0

\* put_object did not report success
PutFailed(outcome) == outcome.kind = "raise" \/ outcome.status # 200

\* the text of the original failure: str(e) of what put_object raised, or the
\* status it returned
FailureText(outcome) ==
    IF outcome.kind = "raise" THEN outcome.text ELSE <<ToString(outcome.status)>>

\* C5: a failed put_object (raised, or status other than 200) ends in an HTTP
\* 500 whose detail holds the descriptive prefix exactly once, in front, and
\* ends with the original status/error text.
C5_WrappedOnce ==
    (Finished /\ puts # <<>> /\ PutFailed(puts[1].outcome)) =>
        /\ StatusCode = 500
        /\ Head(response[1].detail) = "Failed to upload Android package: "
        /\ Count(response[1].detail, "Failed to upload Android package: ") = 1
        /\ EndsWith(response[1].detail, FailureText(puts[1].outcome))

\* the file name passes OSSUploader's extension validation
PassesValidation(fname) == Lower(PathSuffix(fname)) \in {DotApk, DotAab}

\* C6: an upload_file call whose file name passes extension validation calls
\* put_object exactly once, whatever put_object does; on a non-success status
\* it raises, with a message holding the fixed prefix and the status text.
C6_PutOnce ==
    (DirectDone /\ PassesValidation(filename)) =>
        /\ Len(puts) = 1
        /\ (puts[1].outcome.kind = "status" /\ puts[1].outcome.status # 200) =>
              /\ upload_ret[1].kind = "raise"
              /\ upload_ret[1].value = None
              /\ Contains(upload_ret[1].exc[1].msg, "Failed to upload Android package: ")
              /\ Contains(upload_ret[1].exc[1].msg, ToString(puts[1].outcome.status))

\* C6 witness: put_object answered 403 and upload_file raised after one call.
C6_Witness ==
    /\ DirectDone
    /\ Len(puts) = 1
    /\ puts[1].outcome.kind = "status"
    /\ puts[1].outcome.status = 403
    /\ upload_ret[1].kind = "raise"

\* C7: a ValueError from upload_file becomes HTTP 400 with its message, any
\* other failure of upload_file becomes HTTP 500 with the 'Failed to upload'
\* prefix before the error text, and the handler's own 400/413 rejections
\* leave with their status and detail unchanged.
C7_FailureMapping ==
    Finished =>
        /\ (upload_ret # None /\ upload_ret[1].kind = "raise"
                /\ upload_ret[1].exc[1].type = "ValueError") =>
              /\ StatusCode = 400
              /\ response[1].detail = upload_ret[1].exc[1].msg
        /\ (upload_ret # None /\ upload_ret[1].kind = "raise"
                /\ upload_ret[1].exc[1].type # "ValueError") =>
              /\ StatusCode = 500
              /\ response[1].detail =
                    <<"Failed to upload Android package: ">> \o upload_ret[1].exc[1].msg
        /\ upload_ret = None =>
              /\ StatusCode \in {400, 413}
              /\ StatusCode = 413 <=>
                    (HasPackageSuffix(filename) /\ body_len > max_upload_size)
              /\ Head(response[1].detail) \in
                    {"Invalid file type. Only APK and AAB files are allowed. Got: ",
                     "File too large. Maximum size: ",
                     "Empty file uploaded"}

\* C7 witness: the storage client refused a name the handler had accepted
\* ('.apk' has no Path suffix), and the request ended 400.
C7_Witness ==
    /\ Finished
    /\ upload_ret # None
    /\ upload_ret[1].kind = "raise"
    /\ upload_ret[1].exc[1].type = "ValueError"
    /\ StatusCode = 400

\* the outcomes of a finished request that hold in the current state
Outcomes ==
    {o \in {"200 success", "400 invalid type", "413 too large", "400 empty file",
            "400 validation error", "500 upload failure"} :
        CASE o = "200 success" ->
                StatusCode = 200 /\ upload_ret # None /\ upload_ret[1].kind = "return"
          [] o = "400 invalid type" ->
                StatusCode = 400 /\ upload_ret = None /\ ~HasPackageSuffix(filename)
          [] o = "413 too large" ->
                StatusCode = 413 /\ upload_ret = None
          [] o = "400 empty file" ->
                StatusCode = 400 /\ upload_ret = None /\ HasPackageSuffix(filename)
          [] o = "400 validation error" ->
                /\ StatusCode = 400
                /\ upload_ret # None
                /\ upload_ret[1].kind = "raise"
                /\ upload_ret[1].exc[1].type = "ValueError"
          [] o = "500 upload failure" ->
                StatusCode = 500 /\ upload_ret # None /\ upload_ret[1].kind = "raise"}

\* C8: every received request eventually finishes, and when it has finished
\* the inbound file is closed and exactly one of the six outcomes holds.
C8_ClosedOnEveryExit ==
    /\ [](Finished => (file_closed /\ response # None /\ Cardinality(Outcomes) = 1))
    /\ [](pc = "validate_type" => <>Finished)

\* C8 witness: a request that failed in the store has finished with its file closed.
C8_Witness ==
    /\ Finished
    /\ file_closed
    /\ Outcomes = {"500 upload failure"}

\* C9: when put_object succeeds, upload_file returns object_name = the key it
\* put, url = the public host followed by that key, bucket = the configured
\* bucket, file_type = the upper-cased extension.
C9_SuccessResult ==
    (DirectDone /\ puts # <<>> /\ ~PutFailed(puts[1].outcome)) =>
        /\ upload_ret[1].kind = "return"
        /\ upload_ret[1].value[1].object_name = PutKey
        /\ upload_ret[1].value[1].url = <<"https://download.macaron.chat/">> \o PutKey
        /\ upload_ret[1].value[1].bucket = <<"macaron-system">>
        /\ upload_ret[1].value[1].file_type =
              (IF PackageExtension(filename) = DotApk
               THEN <<"A", "P", "K">> ELSE <<"A", "A", "B">>)

\* C9 witness: a successful upload of 'x.AAB' returned file_type 'AAB'.
C9_Witness ==
    /\ DirectDone
    /\ filename = <<"x", ".", "A", "A", "B">>
    /\ puts # <<>>
    /\ ~PutFailed(puts[1].outcome)
    /\ upload_ret[1].kind = "return"
    /\ upload_ret[1].value[1].file_type = <<"A", "A", "B">>

\* the keys of response.json()['data'] that test_upload reads on a 200
\* (src/test_upload.py 68-74)
TEST_CLIENT_FIELDS == {"url", "object_name", "bucket", "size_mb", "console_url"}

\* test_upload's return value for a response: True after a 200 whose data it
\* could read (a missing key raises KeyError, caught, False); False otherwise
test_upload(resp) ==
    IF resp.status_code = 200
    THEN TEST_CLIENT_FIELDS \subseteq DOMAIN resp.content[1].data
    ELSE FALSE

\* C10: every 200 response carries in data every field the test client reads,
\* so test_upload returns True on every 200.
C10_TestClientFields ==
    (Finished /\ StatusCode = 200) =>
        /\ {"url", "object_name", "bucket", "size_mb", "console_url"}
              \subseteq DOMAIN response[1].content[1].data
        /\ test_upload(response[1])

\* C11: every file name the handler's suffix check accepts is accepted by
\* _validate_file_extension too, so a request that passed the handler's type,
\* size and emptiness checks never ends in the ValueError-to-400 path.
C11_ClientCheckUnreachable ==
    (Finished /\ HasPackageSuffix(filename)
        /\ body_len > 0 /\ body_len <= max_upload_size) =>
        /\ _validate_file_extension(filename).kind = "return"
        /\ ~(upload_ret[1].kind = "raise" /\ upload_ret[1].exc[1].type = "ValueError")
        /\ StatusCode # 400

\* the object key upload_file computes when the extension set is iterated in
\* the given order
KeyUnderOrder(fname, custom, order) ==
    IF Truthy(custom)
    THEN oss_prefix \o <<"/">> \o StripExtensions(custom[1], order) \o _get_file_extension(fname)
    ELSE oss_prefix \o <<"/">> \o fname

\* C13: the key put is the one every iteration order of the supported
\* extensions gives for the same prefix, file name and custom name.
C13_KeyOrderIndependent ==
    (DirectDone /\ puts # <<>>) =>
        \A order \in IterationOrders :
            PutKey = KeyUnderOrder(filename, custom_name, order)

\* C14: a 200 response implies a supported suffix, a body length in
\* 1..max_upload_size, exactly one put_object call, which reported status 200,
\* and an envelope message naming the type that data.file_type holds.
C14_SuccessImplies ==
    (Finished /\ StatusCode = 200) =>
        /\ HasPackageSuffix(filename)
        /\ body_len > 0
        /\ body_len <= max_upload_size
        /\ Len(puts) = 1
        /\ puts[1].outcome.kind = "status"
        /\ puts[1].outcome.status = 200
        /\ response[1].content[1].data.file_type \in {<<"A", "P", "K">>, <<"A", "A", "B">>}
        /\ response[1].content[1].message =
              response[1].content[1].data.file_type \o <<" file uploaded successfully">>

\* C14 witness: a 200 response for an AAB upload of maximal length.
C14_Witness ==
    /\ Finished
    /\ StatusCode = 200
    /\ body_len = max_upload_size
    /\ response[1].content[1].data.file_type = <<"A", "A", "B">>

\* C12: under every interleaving of the concurrent requests, each uploader
\* instance has constructed at most one connection, holds it from its first
\* bucket access on, every put_object of the instance went through that
\* connection, and no connection belongs to two instances.
C12_OneConnectionPerInstance ==
    /\ \A r \in Requests :
          /\ tasks[r].uploader.created <= 1
          /\ tasks[r].uploader.created = 1 <=> tasks[r].uploader._bucket # None
          /\ tasks[r].put_conns # <<>> =>
                /\ tasks[r].uploader._bucket # None
                /\ \A i \in 1..Len(tasks[r].put_conns) :
                      tasks[r].put_conns[i] = tasks[r].uploader._bucket[1]
    /\ \A r1, r2 \in Requests :
          (r1 # r2 /\ tasks[r1].uploader._bucket # None
                   /\ tasks[r2].uploader._bucket # None) =>
              tasks[r1].uploader._bucket # tasks[r2].uploader._bucket

\* C12 witness: a request has put its object through its own uploader's
\* connection while, in flight with it, another uploader has served a second
\* put_object from the connection it made on the first.
C12_Witness ==
    \E r1, r2 \in Requests :
        /\ r1 # r2
        /\ tasks[r1].pc = "finally"
        /\ tasks[r1].put_conns # <<>>
        /\ tasks[r1].uploader.created = 1
        /\ tasks[r2].pc = "direct"
        /\ Len(tasks[r2].put_conns) >= 2
        /\ tasks[r2].uploader.created = 1

====
